---- MODULE Spec2Model ----
(***************************************************************************)
(* Model of code/scripts/pre_build.py: the PlatformIO pre-build hook       *)
(* pre_build_action and its registration with env.AddPreAction.            *)
(*                                                                         *)
(* Strings are sequences of one-character strings, so that Python's        *)
(* substring test (in), str.split and indexing are computed, not assumed.  *)
(* Filesystem paths are sequences of path components.                      *)
(***************************************************************************)
EXTENDS Integers, Sequences, FiniteSets, TLC

VARIABLES
    flagsSet,      \* TRUE iff the environment has a BUILD_FLAGS entry
    flags,         \* env["BUILD_FLAGS"]: a sequence of flag strings
    fs,            \* the filesystem: path -> "absent" | "dir" | "file"
    readonly,      \* directories in which the OS refuses mkdir (EACCES/EROFS)
    registered,    \* hook registrations made by the script (line 21)
    host,          \* the build system: "init" | "idle" | "running" | "failed"
    target,        \* the target of the current build invocation
    queue,         \* actions the host still has to execute in this invocation
    events,        \* what the host has executed in this invocation, in order
    pc,            \* position inside pre_build_action
    board_model,   \* the local variable board_model (None or a string)
    out,           \* lines printed to the console in this invocation
    err,           \* the exception pre_build_action raised, "none" if none
    firstDone,     \* history: a run of the hook has already returned normally
    fsAfterFirst,  \* history: the filesystem left by that first normal return
    fsAtCall       \* history: the filesystem when the hook was last called

vars == <<flagsSet, flags, fs, readonly, registered, host, target, queue,
          events, pc, board_model, out, err, firstDone, fsAfterFirst, fsAtCall>>

(***************************************************************************)
(* Bounds                                                                  *)
(***************************************************************************)
\* Longest BUILD_FLAGS list drawn in Init.
MaxFlags == 2

(***************************************************************************)
(* String literals of the script                                           *)
(***************************************************************************)
\* "BOARD_MODEL=" (line 10)
Marker == <<"B","O","A","R","D","_","M","O","D","E","L","=">>

\* "=" (line 11)
Separator == "="

\* "[Geogram] Building for board model: " (line 15)
LogPrefix ==
    <<"[","G","e","o","g","r","a","m","]"," ",
      "B","u","i","l","d","i","n","g"," ","f","o","r"," ",
      "b","o","a","r","d"," ","m","o","d","e","l",":"," ">>

\* The flag strings the build environment may hold.
FlagPool ==
    { Marker \o <<"e","s","p","3","2">>,                          \* BOARD_MODEL=esp32
      <<"O","T","H","E","R","=","1">>,                            \* OTHER=1
      Marker,                                                     \* BOARD_MODEL=
      Marker \o <<"a","=","b">>,                                  \* BOARD_MODEL=a=b
      <<"X","=","1",",">> \o Marker \o <<"e","s","p","3","2">>,   \* X=1,BOARD_MODEL=esp32
      <<"-","D">> \o Marker \o <<"s","3">>,                       \* -DBOARD_MODEL=s3
      <<"B","O","A","R","D","_","M","O","D","E","L">> }           \* BOARD_MODEL

FlagLists == UNION { [1..n -> FlagPool] : n \in 0..MaxFlags }

(***************************************************************************)
(* Python string operations                                                *)
(***************************************************************************)
\* sub in s
Contains(s, sub) ==
    \E i \in 1..(Len(s) - Len(sub) + 1) : SubSeq(s, i, i + Len(sub) - 1) = sub

\* index of the first occurrence of character c in s, 0 if none
FirstIndexOf(s, c) ==
    IF \E i \in 1..Len(s) : s[i] = c
    THEN CHOOSE i \in 1..Len(s) : s[i] = c /\ \A j \in 1..(i - 1) : s[j] # c
    ELSE 0

\* s.split(c): the list of the pieces of s between occurrences of c
RECURSIVE Split(_, _)
Split(s, c) ==
    LET i == FirstIndexOf(s, c)
    IN  IF i = 0 THEN <<s>>
        ELSE <<SubSeq(s, 1, i - 1)>> \o Split(SubSeq(s, i + 1, Len(s)), c)

(***************************************************************************)
(* The scan loop, lines 8-12                                               *)
(***************************************************************************)
None == [none |-> TRUE, val |-> <<>>]

Str(s) == [none |-> FALSE, val |-> s]

\* line 10: the test that selects a flag
IsBoardFlagNoEq(flag) == Contains(flag, <<"B","O","A","R","D","_","M","O","D","E","L">>)

IsBoardFlagAnyEq(flag) == Contains(flag, <<Separator>>)

IsBoardFlag(flag) == Contains(flag, Marker)

\* line 11: flag.split("=")[1]; IndexError when there is no second piece
ExtractValue(flag) ==
    LET parts == Split(flag, Separator)
    IN  IF Len(parts) < 2
        THEN [raised |-> TRUE, bm |-> None]
        ELSE [raised |-> FALSE, bm |-> Str(parts[2])]

\* the loop without its break: the last matching flag wins
RECURSIVE ScanFromNoBreak(_, _)
ScanFromNoBreak(fl, i) ==
    IF i > Len(fl) THEN [raised |-> FALSE, bm |-> None]
    ELSE LET rest == ScanFromNoBreak(fl, i + 1)
         IN  IF IsBoardFlag(fl[i])
             THEN IF ExtractValue(fl[i]).raised THEN ExtractValue(fl[i])
                  ELSE IF rest.raised \/ ~rest.bm.none THEN rest
                  ELSE ExtractValue(fl[i])
             ELSE rest

\* lines 8-12: board_model after the loop over fl[i..], or the IndexError
RECURSIVE ScanFrom(_, _)
ScanFrom(fl, i) ==
    IF i > Len(fl) THEN [raised |-> FALSE, bm |-> None]
    ELSE IF IsBoardFlag(fl[i]) THEN ExtractValue(fl[i])
    ELSE ScanFrom(fl, i + 1)

\* env.get("BUILD_FLAGS", [])
EnvGetBuildFlags == IF flagsSet THEN flags ELSE <<>>

\* line 14: if board_model
Truthy(bm) == ~bm.none /\ bm.val # <<>>

\* line 15: the printed line
LogLine(bm) == LogPrefix \o bm.val

(***************************************************************************)
(* The filesystem and os.makedirs, lines 17-19                             *)
(***************************************************************************)
Root == <<>>

\* env.subst("$PROJECT_DIR")
ProjectDir == <<"tmp", "proj">>

\* os.path.join(a, b) for a relative single segment b
PathJoin(a, b) == a \o <<b>>

\* line 18
FirmwareDir == PathJoin(ProjectDir, "firmware")

Paths ==
    { Root, <<"tmp">>, ProjectDir, FirmwareDir,
      PathJoin(FirmwareDir, "firmware.bin"), PathJoin(ProjectDir, "src") }

Kinds == {"absent", "dir", "file"}

Parent(p) == SubSeq(p, 1, Len(p) - 1)

IsPrefix(p, q) == Len(p) <= Len(q) /\ SubSeq(q, 1, Len(p)) = p

\* every entry lives in a directory
WellFormed(f) ==
    /\ f[Root] = "dir"
    /\ \A p \in Paths \ {Root} : f[p] # "absent" => f[Parent(p)] = "dir"

\* os.mkdir(name): "exists" is FileExistsError, "oserror" any other OSError
Mkdir(f, ro, name) ==
    IF f[name] # "absent" THEN [fs |-> f, error |-> "exists"]
    ELSE IF f[Parent(name)] # "dir" THEN [fs |-> f, error |-> "oserror"]
    ELSE IF Parent(name) \in ro THEN [fs |-> f, error |-> "oserror"]
    ELSE [fs |-> [f EXCEPT ![name] = "dir"], error |-> "none"]

\* os.makedirs(name, exist_ok=exist_ok)
RECURSIVE Makedirs(_, _, _, _)
Makedirs(f, ro, name, exist_ok) ==
    LET head == Parent(name)
        pre  == IF name # Root /\ f[head] = "absent"
                THEN Makedirs(f, ro, head, exist_ok)
                ELSE [fs |-> f, error |-> "none"]
    IN  IF pre.error = "oserror" THEN pre
        ELSE LET r == Mkdir(pre.fs, ro, name)
             IN  IF r.error = "none" THEN r
                 ELSE IF ~exist_ok \/ pre.fs[name] # "dir"
                      THEN [fs |-> pre.fs, error |-> r.error]
                      ELSE [fs |-> pre.fs, error |-> "none"]

\* os.makedirs called without exist_ok
EnsureFirmwareDirNoExistOk(f, ro) == Makedirs(f, ro, FirmwareDir, FALSE)

\* os.makedirs wrapped in a handler that swallows every OSError
EnsureFirmwareDirSwallow(f, ro) ==
    [fs |-> Makedirs(f, ro, FirmwareDir, TRUE).fs, error |-> "none"]

\* a non-directory entry in the way is replaced by the directory
EnsureFirmwareDirReplace(f, ro) ==
    IF f[FirmwareDir] = "file"
    THEN [fs |-> [f EXCEPT ![FirmwareDir] = "dir"], error |-> "none"]
    ELSE Makedirs(f, ro, FirmwareDir, TRUE)

\* line 19
EnsureFirmwareDir(f, ro) == Makedirs(f, ro, FirmwareDir, TRUE)

(***************************************************************************)
(* Registration, line 21, and the host build system                        *)
(***************************************************************************)
Targets == {"buildprog", "upload"}

RegistrationPost == [kind |-> "post", target |-> "buildprog"]

\* env.AddPreAction("buildprog", pre_build_action)
Registration == [kind |-> "pre", target |-> "buildprog"]

\* the actions the host executes for target t, in order
HooksOf(kind, t) ==
    IF [kind |-> kind, target |-> t] \in registered THEN <<"hook">> ELSE <<>>

ActionList(t) == HooksOf("pre", t) \o <<"build">> \o HooksOf("post", t)

(***************************************************************************)
(* The order of the statements of pre_build_action                         *)
(***************************************************************************)
StepOrderMkdirFirst == <<"scan", "mkdir", "log">>

\* lines 8-12, then 14-15, then 17-19
StepOrder == <<"scan", "log", "mkdir">>

\* the position after step p; "returned" after the last one
After(p) ==
    LET i == CHOOSE k \in 1..Len(StepOrder) : StepOrder[k] = p
    IN  IF i = Len(StepOrder) THEN "returned" ELSE StepOrder[i + 1]

(***************************************************************************)
(* Initial states                                                          *)
(***************************************************************************)
Init ==
    /\ flagsSet \in BOOLEAN
    /\ flags \in FlagLists
    /\ ~flagsSet => flags = <<>>
    /\ fs \in {f \in [Paths -> Kinds] : WellFormed(f)}
    /\ readonly \in {{}} \cup {{p} : p \in {q \in Paths : IsPrefix(q, ProjectDir)}}
    /\ \A p \in readonly : fs[p] = "dir"
    /\ registered = {}
    /\ host = "init"
    /\ target = "buildprog"
    /\ queue = <<>>
    /\ events = <<>>
    /\ pc = "idle"
    /\ board_model = None
    /\ out = <<>>
    /\ err = "none"
    /\ firstDone = FALSE
    /\ fsAfterFirst = fs
    /\ fsAtCall = fs

(***************************************************************************)
(* The script's top level, lines 1-21                                      *)
(***************************************************************************)
LoadScript ==
    /\ host = "init"
    /\ registered' = registered \cup {Registration}
    /\ host' = "idle"
    /\ UNCHANGED <<flagsSet, flags, fs, readonly, target, queue, events, pc,
                   board_model, out, err, firstDone, fsAfterFirst, fsAtCall>>

(***************************************************************************)
(* The host: one build invocation                                          *)
(***************************************************************************)
StartBuild(t) ==
    /\ host = "idle"
    /\ host' = "running"
    /\ target' = t
    /\ queue' = ActionList(t)
    /\ events' = <<>>
    /\ out' = <<>>
    /\ err' = "none"
    /\ UNCHANGED <<flagsSet, flags, fs, readonly, registered, pc, board_model,
                   firstDone, fsAfterFirst, fsAtCall>>

\* the host calls pre_build_action(source, target, env); line 8
CallHook ==
    /\ host = "running"
    /\ pc = "idle"
    /\ queue # <<>>
    /\ Head(queue) = "hook"
    /\ pc' = StepOrder[1]
    /\ board_model' = None
    /\ fsAtCall' = fs
    /\ UNCHANGED <<flagsSet, flags, fs, readonly, registered, host, target,
                   queue, events, out, err, firstDone, fsAfterFirst>>

\* lines 9-12
HookScan ==
    /\ pc = "scan"
    /\ LET r == ScanFrom(EnvGetBuildFlags, 1)
       IN  IF r.raised
           THEN /\ pc' = "raised"
                /\ err' = "IndexError"
                /\ UNCHANGED board_model
           ELSE /\ pc' = After("scan")
                /\ board_model' = r.bm
                /\ UNCHANGED err
    /\ UNCHANGED <<flagsSet, flags, fs, readonly, registered, host, target,
                   queue, events, out, firstDone, fsAfterFirst, fsAtCall>>

\* lines 14-15
HookLog ==
    /\ pc = "log"
    /\ out' = IF Truthy(board_model) THEN Append(out, LogLine(board_model)) ELSE out
    /\ pc' = After("log")
    /\ UNCHANGED <<flagsSet, flags, fs, readonly, registered, host, target,
                   queue, events, board_model, err, firstDone, fsAfterFirst, fsAtCall>>

\* lines 17-19
HookMakedirs ==
    /\ pc = "mkdir"
    /\ LET r == EnsureFirmwareDir(fs, readonly)
       IN  /\ fs' = r.fs
           /\ IF r.error = "none"
              THEN /\ pc' = After("mkdir")
                   /\ UNCHANGED err
              ELSE /\ pc' = "raised"
                   /\ err' = "OSError"
    /\ UNCHANGED <<flagsSet, flags, readonly, registered, host, target, queue,
                   events, board_model, out, firstDone, fsAfterFirst, fsAtCall>>

\* the hook returns normally to the host, which goes on with its action list
HookReturn ==
    /\ pc = "returned"
    /\ pc' = "idle"
    /\ queue' = Tail(queue)
    /\ events' = Append(events, "hook_ok")
    /\ firstDone' = TRUE
    /\ fsAfterFirst' = IF firstDone THEN fsAfterFirst ELSE fs
    /\ UNCHANGED <<flagsSet, flags, fs, readonly, registered, host, target,
                   board_model, out, err, fsAtCall>>

\* the exception leaves the hook; the host abandons the invocation
HookFail ==
    /\ pc = "raised"
    /\ pc' = "idle"
    /\ queue' = <<>>
    /\ events' = Append(events, "hook_failed")
    /\ host' = "failed"
    /\ UNCHANGED <<flagsSet, flags, fs, readonly, registered, target,
                   board_model, out, err, firstDone, fsAfterFirst, fsAtCall>>

\* the host runs the target's own build action
RunBuilder ==
    /\ host = "running"
    /\ pc = "idle"
    /\ queue # <<>>
    /\ Head(queue) = "build"
    /\ queue' = Tail(queue)
    /\ events' = Append(events, "build")
    /\ UNCHANGED <<flagsSet, flags, fs, readonly, registered, host, target,
                   pc, board_model, out, err, firstDone, fsAfterFirst, fsAtCall>>

\* the invocation ends; the next one may start
EndBuild ==
    /\ \/ host = "running" /\ queue = <<>> /\ pc = "idle"
       \/ host = "failed"
    /\ host' = "idle"
    /\ UNCHANGED <<flagsSet, flags, fs, readonly, registered, target, queue,
                   events, pc, board_model, out, err, firstDone, fsAfterFirst, fsAtCall>>

Next ==
    \/ LoadScript
    \/ \E t \in Targets : StartBuild(t)
    \/ CallHook
    \/ HookScan
    \/ HookLog
    \/ HookMakedirs
    \/ HookReturn
    \/ HookFail
    \/ RunBuilder
    \/ EndBuild

Spec == Init /\ [][Next]_vars

(***************************************************************************)
(* Vocabulary of the properties                                            *)
(***************************************************************************)
\* the indices of the flags that contain "BOARD_MODEL="
MatchingIndices ==
    {i \in 1..Len(EnvGetBuildFlags) : Contains(EnvGetBuildFlags[i], Marker)}

NoBoardFlag == MatchingIndices = {}

\* the lowest-index flag that contains the marker
FirstMatchingFlag ==
    EnvGetBuildFlags[CHOOSE i \in MatchingIndices : \A j \in MatchingIndices : i <= j]

\* the whole of s after its first "="
AfterFirstEq(s) == SubSeq(s, FirstIndexOf(s, "=") + 1, Len(s))

\* positions of the hook at which the scan of the current run is over
ScanOver == pc \in {"log", "mkdir", "returned", "raised"}

\* positions of the hook at which the log step of the current run is over
LogOver == pc \in {"mkdir", "returned", "raised"}

\* the longest existing prefix of the firmware path
NearestExisting ==
    CHOOSE p \in Paths :
        /\ IsPrefix(p, FirmwareDir)
        /\ fs[p] # "absent"
        /\ \A q \in Paths : IsPrefix(q, FirmwareDir) /\ fs[q] # "absent" => Len(q) <= Len(p)

\* the operating system cannot make the firmware path a directory
CreationMustFail ==
    /\ fs[FirmwareDir] # "dir"
    /\ fs[NearestExisting] = "file" \/ NearestExisting \in readonly

\* "esp32"
Esp32 == <<"e","s","p","3","2">>

(***************************************************************************)
(* C1: the board-model value is taken from the lowest-index flag that      *)
(* contains BOARD_MODEL=; later matching flags influence neither the value *)
(* nor the log line, also when the first match yields an empty value.      *)
(***************************************************************************)
C1_FirstMatchWins ==
    ~NoBoardFlag =>
        LET v == ExtractValue(FirstMatchingFlag).bm
        IN  /\ ScanOver => board_model = v
            /\ LogOver => out = IF v.val # <<>> THEN <<LogPrefix \o v.val>> ELSE <<>>

\* a list whose first match has an empty value and whose later match has not
C1_Witness ==
    /\ pc = "mkdir"
    /\ Cardinality(MatchingIndices) >= 2
    /\ FirstMatchingFlag = Marker
    /\ \E i \in MatchingIndices : AfterFirstEq(EnvGetBuildFlags[i]) # <<>>
    /\ board_model = Str(<<>>)
    /\ out = <<>>

(***************************************************************************)
(* C2: for a flag containing BOARD_MODEL=, the extracted value is the      *)
(* whole substring of the flag after its first "=".                        *)
(***************************************************************************)
C2_ValueIsAllAfterFirstEq ==
    (ScanOver /\ ~NoBoardFlag) => board_model = Str(AfterFirstEq(FirstMatchingFlag))

(***************************************************************************)
(* C3: a log line is emitted exactly when some flag contains BOARD_MODEL=, *)
(* and then it is the one line "[Geogram] Building for board model: "      *)
(* followed by the extracted value, also when that value is empty.         *)
(***************************************************************************)
C3_LogIffFound ==
    LogOver =>
        out = IF NoBoardFlag THEN <<>> ELSE <<LogPrefix \o board_model.val>>

(***************************************************************************)
(* C4: with no flag containing BOARD_MODEL= (the empty list and a missing  *)
(* BUILD_FLAGS entry included) the value is absent, nothing is logged, the *)
(* scan raises nothing, and the hook goes on to the directory step.        *)
(***************************************************************************)
C4_AbsentIsNotAnError ==
    /\ [](NoBoardFlag =>
            /\ ScanOver => board_model = None
            /\ out = <<>>
            /\ err # "IndexError"
            /\ pc = "returned" => fs[FirmwareDir] = "dir")
    /\ [][NoBoardFlag /\ pc = "scan" => pc' = "log" /\ err' = "none"]_vars
    /\ [][NoBoardFlag /\ pc = "log" => pc' = "mkdir" /\ err' = "none"]_vars
    /\ [][NoBoardFlag /\ pc' \in {"returned", "raised"} /\ pc' # pc => pc = "mkdir"]_vars

\* a non-empty list without the marker, after a normal return
C4_Witness ==
    /\ pc = "returned"
    /\ NoBoardFlag
    /\ flagsSet
    /\ Len(flags) > 0
    /\ board_model = None
    /\ out = <<>>

(***************************************************************************)
(* C5: whenever the hook returns without error, <project_dir>/firmware is  *)
(* a directory.                                                            *)
(***************************************************************************)
C5_FirmwareDirExists ==
    (pc = "returned" \/ (events # <<>> /\ events[1] = "hook_ok")) =>
        fs[FirmwareDir] = "dir"

\* /tmp/proj exists without a firmware subdirectory, and the hook has returned
C5_Witness ==
    /\ pc = "returned"
    /\ fsAtCall[ProjectDir] = "dir"
    /\ fsAtCall[FirmwareDir] = "absent"
    /\ fs[FirmwareDir] = "dir"

(***************************************************************************)
(* C6: once one run of the hook has returned normally, every later run     *)
(* leaves the filesystem as that first run left it and none of them fails. *)
(***************************************************************************)
C6_Idempotent ==
    firstDone => fs = fsAfterFirst /\ pc # "raised" /\ err = "none"

\* a second run has returned
C6_Witness ==
    /\ firstDone
    /\ pc = "returned"
    /\ fsAtCall[FirmwareDir] = "dir"
    /\ fs = fsAfterFirst

(***************************************************************************)
(* C7: the hook fails only in the directory step: scan and log never       *)
(* raise, and a failed directory creation leaves the hook as an OSError,   *)
(* after which the hook does nothing more.                                 *)
(***************************************************************************)
C7_OnlyMakedirsFails ==
    /\ [](err \in {"none", "OSError"})
    /\ [](pc = "raised" => err = "OSError")
    /\ [][pc' = "raised" /\ pc # "raised" => pc = "mkdir"]_vars
    /\ [][pc = "mkdir" /\ CreationMustFail => pc' = "raised" /\ err' = "OSError"]_vars
    /\ [][pc = "raised" => pc' = "idle" /\ fs' = fs /\ out' = out /\ err' = err]_vars

\* the scan met a flag with the marker and went through; directory creation failed
C7_Witness ==
    /\ pc = "raised"
    /\ err = "OSError"
    /\ ~NoBoardFlag
    /\ fs[FirmwareDir] # "dir"

(***************************************************************************)
(* C8: in an invocation that runs the buildprog action the hook has        *)
(* returned before the action starts; after a failed hook the action is    *)
(* not run; the hook runs once per execution of the action.                *)
(***************************************************************************)
C8_HookBeforeBuildprog ==
    target = "buildprog" =>
        /\ \A i \in 1..Len(events) :
              events[i] = "build" =>
                  /\ i = 2
                  /\ events[1] = "hook_ok"
                  /\ pc = "idle"
        /\ Cardinality({i \in 1..Len(events) : events[i] \in {"hook_ok", "hook_failed"}}) <= 1
        /\ (\E i \in 1..Len(events) : events[i] = "hook_failed") =>
              /\ \A i \in 1..Len(events) : events[i] # "build"
              /\ queue = <<>>

\* buildprog has run, after the hook
C8_Witness ==
    /\ target = "buildprog"
    /\ events = <<"hook_ok", "build">>
    /\ fs[FirmwareDir] = "dir"

(***************************************************************************)
(* C9: within a run the steps are scan, log, directory creation, in that   *)
(* order; when directory creation fails after a non-empty board model was  *)
(* found, the log line is already out and is the run's only output.        *)
(***************************************************************************)
C9_LogBeforeMakedirs ==
    /\ []((pc \in {"mkdir", "raised"} /\ ~board_model.none /\ board_model.val # <<>>)
            => out = <<LogPrefix \o board_model.val>>)
    /\ [][pc = "scan" => pc' = "log" /\ fs' = fs /\ out' = out]_vars
    /\ [][pc = "log" => pc' = "mkdir" /\ fs' = fs]_vars
    /\ [][pc = "mkdir" => pc' \in {"returned", "raised"} /\ out' = out]_vars

\* directory creation failed after "esp32" was logged
C9_Witness ==
    /\ pc = "raised"
    /\ err = "OSError"
    /\ board_model = Str(Esp32)
    /\ out = <<LogPrefix \o Esp32>>

(***************************************************************************)
(* C10: a run changes nothing on the filesystem except possibly adding the *)
(* firmware directory and missing ancestors of it; an existing firmware    *)
(* directory keeps its contents; a non-directory at the path makes the run *)
(* fail with a filesystem error and is left untouched.                     *)
(***************************************************************************)
C10_Frame ==
    /\ \A p \in Paths :
          fs[p] # fsAtCall[p] =>
              /\ fsAtCall[p] = "absent"
              /\ fs[p] = "dir"
              /\ IsPrefix(p, FirmwareDir)
    /\ fsAtCall[FirmwareDir] = "dir" => fs = fsAtCall
    /\ fsAtCall[FirmwareDir] = "file" =>
          /\ fs = fsAtCall
          /\ pc # "returned"
          /\ pc = "raised" => err = "OSError"
          /\ \A i \in 1..Len(events) : events[i] # "hook_ok"

\* a file sits at the firmware path: the run failed and the file is still there
C10_Witness ==
    /\ pc = "raised"
    /\ err = "OSError"
    /\ fsAtCall[FirmwareDir] = "file"
    /\ fs[FirmwareDir] = "file"

====
